---------------------------- MODULE Spec2Model ----------------------------
(***************************************************************************)
(* Model of src/app.py: the MongoDB-backed ChatHistory (add_message,       *)
(* get_recent_messages, the TTL index) and the Telegram Bot's turn         *)
(* handlers (get_claude_response with its retry loop, handle_text_message, *)
(* handle_voice_message).                                                  *)
(*                                                                         *)
(* The handlers are asyncio coroutines: code between two awaits runs       *)
(* atomically on the event loop, so every handler action below is one such *)
(* stretch.  One turn is followed step by step; the turns that overlap it  *)
(* appear through the one thing they share with it, their writes to the    *)
(* collection (OtherTurnWrites).                                           *)
(***************************************************************************)
EXTENDS Integers, Sequences, FiniteSets, TLC

\* ---------------------------------------------------------------- bounds
MaxStore == 3        \* documents the store-level specification inserts
MaxClock == 2        \* clock readings 0..MaxClock
MaxLimit == 2        \* limits 1..MaxLimit tried by the store-level reads
MaxOthers == 1       \* writes by overlapping turns that the store holds
TickDays == 30       \* days that pass in one clock tick

\* ------------------------------------------------------ program constants
ttl_days == 30                 \* ChatHistory.__init__(ttl_days=30)
message_history_limit == 10    \* BotConfig.message_history_limit
max_retries == 3               \* Bot.max_retries
retry_delay == 1               \* Bot.retry_delay
cache_maxsize == 100           \* @lru_cache(maxsize=100)

Chats == {"c1", "c2"}
\* What the store-level callers write: a user's message, a generated reply.
Said == {<<"user", "m">>, <<"assistant", "r">>}
NoLang == "none"               \* effective_user.language_code is None
Locales == {NoLang, "pt"}
TurnChats == {"c1"}            \* the chat of the turn that is followed
Turns == {1}                   \* the handler invocation that is followed

VARIABLES
    store,      \* the chat_histories collection, in insertion order
    nextId,     \* the next _id the collection hands out
    clock,      \* datetime.utcnow(), in ticks; taken as never going back
    recent,     \* what the last store-level get_recent_messages returned
    turn,       \* per handler invocation: its locals and its position
    cache,      \* get_chat_language's lru_cache, least recently used first
    asked,      \* per chat, what get_chat_language last returned
    wa          \* the WhatsApp bot's handler invocation: locals, position

vars == <<store, nextId, clock, recent, turn, cache, asked, wa>>

\* ------------------------------------------------------------ ChatHistory

\* expireAfterSeconds of the TTL index, in ticks.
expireAfter == ttl_days \div TickDays

Min(a, b) == IF a < b THEN a ELSE b

Reverse(s) == [i \in 1..Len(s) |-> s[Len(s) + 1 - i]]

\* The document insert_one stores.
NewDoc(id, chat_id, role, content, language, now) ==
    [id |-> id, chat_id |-> chat_id, role |-> role, content |-> content,
     language |-> language, timestamp |-> now]

\* The projection {"role": 1, "content": 1}: _id comes with it.
Project(d) == [id |-> d.id, role |-> d.role, content |-> d.content]

\* find({"chat_id": chat_id})
Matching(s, chat_id) == {s[i] : i \in {j \in 1..Len(s) : s[j].chat_id = chat_id}}

\* .sort("timestamp", -1): every order of the matching documents that is
\* non-increasing in timestamp.  The order among equal timestamps is not
\* specified by the database, so each one is a possible outcome.
SortedDesc(D) ==
    LET n == Cardinality(D)
    IN  {f \in [1..n -> D] :
            /\ \A i, j \in 1..n : i # j => f[i] # f[j]
            /\ \A i \in 1..n : \A j \in 1..n :
                  i < j => f[i].timestamp >= f[j].timestamp}

\* The tail of get_recent_messages: list(cursor), then messages.reverse().
ReverseMessagesKeep(messages) == messages
ReverseMessages(messages) == Reverse(messages)

\* get_recent_messages(chat_id, limit): the set of lists it may return.
get_recent_messages(s, chat_id, limit) ==
    LET D == Matching(s, chat_id)
        k == Min(limit, Cardinality(D))
    IN  {ReverseMessages([i \in 1..k |-> Project(f[i])]) : f \in SortedDesc(D)}

\* The TTL monitor deletes a document once its timestamp is more than
\* expireAfterSeconds in the past.
Expired(d, now) == d.timestamp + expireAfter < now


\* add_message never lets the insert's exception out: the try/except logs it.
add_message_raises_on_error(ok) == ~ok
add_message_raises(ok) == FALSE

\* add_message(chat_id, role, content, language): the collection afterwards.
\* ok is whether insert_one succeeded.
add_message(s, id, chat_id, role, content, language, now, ok) ==
    IF ok THEN Append(s, NewDoc(id, chat_id, role, content, language, now))
    ELSE s

NoCall == [called |-> FALSE]

\* find_one({"chat_id": chat_id}, {"language": 1}) and
\* result.get("language", "en") if result else "en".  No sort is given, so
\* the document is whichever one of the chat the query plan meets first.
FindOneLanguage(s, chat_id) ==
    IF Matching(s, chat_id) = {} THEN {"en"}
    ELSE {d.language : d \in Matching(s, chat_id)}

\* functools.lru_cache keyed by chat_id: a hit moves the entry to the
\* most recently used end, a miss stores the computed value and drops the
\* least recently used entry once maxsize is passed.
CacheHit(c, chat_id) == \E i \in 1..Len(c) : c[i].key = chat_id
CacheValue(c, chat_id) ==
    c[CHOOSE i \in 1..Len(c) : c[i].key = chat_id].value
CacheTouch(c, chat_id) ==
    Append(SelectSeq(c, LAMBDA e : e.key # chat_id),
           [key |-> chat_id, value |-> CacheValue(c, chat_id)])
CacheStore(c, chat_id, value) ==
    LET c1 == Append(c, [key |-> chat_id, value |-> value])
    IN  IF Len(c1) > cache_maxsize THEN Tail(c1) ELSE c1

\* get_chat_language(chat_id): the values it may return, each with the
\* cache afterwards.
get_chat_language(c, s, chat_id) ==
    IF CacheHit(c, chat_id)
    THEN {[value |-> CacheValue(c, chat_id),
           cache |-> CacheTouch(c, chat_id)]}
    ELSE {[value |-> v, cache |-> CacheStore(c, chat_id, v)] :
             v \in FindOneLanguage(s, chat_id)}

\* ------------------------------------------------- store-level operations

\* A caller runs add_message(chat_id, role, content) (language defaults to
\* "en"); the insert succeeds or fails.
AddMessage ==
    \E chat_id \in Chats, said \in Said, ok \in BOOLEAN :
        /\ nextId <= MaxStore
        /\ store' = add_message(store, nextId, chat_id, said[1], said[2],
                                "en", clock, ok)
        /\ nextId' = IF ok THEN nextId + 1 ELSE nextId
        /\ recent' = NoCall
        /\ UNCHANGED <<clock, turn, cache, asked, wa>>

\* A caller runs get_recent_messages(chat_id, limit) and holds the result.
GetRecentMessages ==
    \E chat_id \in Chats, limit \in 1..MaxLimit :
        \E result \in get_recent_messages(store, chat_id, limit) :
            /\ recent' = [called |-> TRUE, chat_id |-> chat_id,
                          limit |-> limit, result |-> result, now |-> clock]
            /\ UNCHANGED <<store, nextId, clock, turn, cache, asked, wa>>

\* A caller runs add_message(chat_id, "user", content, language) with a
\* language of its own; the insert succeeds.
AddMessageIn ==
    \E chat_id \in Chats, language \in {"en", "pt"} :
        /\ nextId <= MaxStore
        /\ store' = add_message(store, nextId, chat_id, "user", "m",
                                language, clock, TRUE)
        /\ nextId' = nextId + 1
        /\ recent' = NoCall
        /\ UNCHANGED <<clock, turn, cache, asked, wa>>

\* A caller runs get_chat_language(chat_id).
GetChatLanguageOf(chat_id) ==
    \E o \in get_chat_language(cache, store, chat_id) :
        /\ cache' = o.cache
        /\ asked' = [asked EXCEPT ![chat_id] = o.value]
        /\ UNCHANGED <<store, nextId, clock, recent, turn, wa>>

GetChatLanguage == \E chat_id \in Chats : GetChatLanguageOf(chat_id)

\* Time passes.
Tick ==
    /\ clock < MaxClock
    /\ clock' = clock + 1
    /\ recent' = NoCall
    /\ UNCHANGED <<store, nextId, turn, cache, asked, wa>>

\* A pass of the database's TTL monitor over the "timestamp" index.
Purge ==
    /\ \E i \in 1..Len(store) : Expired(store[i], clock)
    /\ store' = SelectSeq(store, LAMBDA d : ~Expired(d, clock))
    /\ recent' = NoCall
    /\ UNCHANGED <<nextId, clock, turn, cache, asked, wa>>

\* -------------------------------------------------------------------- Bot

Apology == "Sorry, something went wrong."
NotUnderstood == "Could not understand audio. Please try again."
VoiceApology == "Sorry, I couldn't process your voice message."
Reply == "reply"          \* response.content[0].text of a successful call
NoneValue == "None"       \* Python's None where a text was expected
UserTexts == {"m", "n"}   \* what a user writes or says
OtherTexts == {"m"}       \* what the users of the overlapping turns write
Outcomes == {"ok", "transient", "permanent"}   \* of one messages.create call

\* The locals of one handler invocation before it starts.
IdleTurn ==
    [pc |-> "idle", kind |-> "text", chat_id |-> "c1", text |-> NoneValue,
     locale |-> NoLang, language |-> "en", chatLangs |-> {},
     persisted |-> <<>>,
     ownIds |-> {}, writeFailed |-> FALSE, reads |-> 0,
     readFailed |-> FALSE, window |-> <<>>, messages |-> <<>>, requests |-> <<>>, attempt |-> 0, outcomes |-> <<>>,
     sleeps |-> <<>>, response |-> NoneValue, transcript |-> "pending",
     error |-> "none", voiceError |-> "none", audio |-> "none",
     out |-> <<>>, escaped |-> FALSE]

\* language = update.effective_user.language_code or 'en'
EffectiveLanguage(locale) == IF locale = NoLang THEN "en" ELSE locale

\* asyncio.sleep(self.retry_delay * (attempt + 1))
BackoffConstant(attempt) == retry_delay
Backoff(attempt) == retry_delay * (attempt + 1)

\* if attempt == self.max_retries - 1: raise
IsLastAttemptOffByOne(attempt) == attempt = max_retries
IsLastAttempt(attempt) == attempt = max_retries - 1

\* except Exception as e: every error class of the service lands in the
\* retry branch.
Caught(outcome) == outcome \in {"transient", "permanent"}

\* if not text: None and the empty string are both falsy.
NotTextOnlyNone(text) == text = NoneValue
NotText(text) == text \in {NoneValue, ""}

\* speech_to_text: result["text"] if result else None
speech_to_text(result) == IF result = <<>> THEN NoneValue ELSE result[1]

\* An exception reaches handle_text_message's except (error keeps what was
\* raised): the apology is sent.
Except(r, cause) == [r EXCEPT !.error = cause, !.pc = "sending_apology"]

\* An exception reaches handle_voice_message's except (voiceError keeps
\* what was raised): the voice apology is sent.
VoiceExcept(r, cause) ==
    [r EXCEPT !.voiceError = cause, !.pc = "sending_voice_apology"]

\* An exception leaves handle_text_message: into handle_voice_message's
\* except when that is the caller, out of the handler otherwise.
Propagate(r, cause) ==
    IF r.kind = "voice" THEN VoiceExcept(r, cause)
    ELSE [r EXCEPT !.escaped = TRUE, !.pc = "done"]

\* The third failed attempt: the exception is re-raised to the handler.
OnExhaustedReturnsText(r, outcome) ==
    [r EXCEPT !.response = Apology, !.audio = "scheduled",
              !.pc = "sending_text"]
\* The third failed attempt starts the attempts over.
OnExhaustedRetryForever(r, outcome) ==
    [r EXCEPT !.attempt = 0, !.outcomes = <<>>, !.sleeps = <<>>,
              !.requests = <<r.messages>>, !.pc = "calling"]
OnExhausted(r, outcome) == Except(r, outcome)

\* handle_text_message up to its first suspension (lines 176-189): the
\* completion task is created but has not run, the user's Turn is written.
TextBody(r, chat_id, text, locale, ok) ==
    LET r1 == [r EXCEPT !.chat_id = chat_id, !.text = text,
                        !.locale = locale,
                        !.language = EffectiveLanguage(locale),
                        !.chatLangs =
                            {o.value : o \in get_chat_language(
                                                 cache, store, chat_id)},
                        !.persisted = IF ok THEN Append(@, "user") ELSE @,
                        !.ownIds = IF ok THEN @ \cup {nextId} ELSE @,
                        !.writeFailed = ~ok]
    IN  IF add_message_raises(ok) THEN Except(r1, "store")
        ELSE [r1 EXCEPT !.pc = "task"]

StoreAfterUser(chat_id, text, locale, ok) ==
    add_message(store, nextId, chat_id, "user", text,
                EffectiveLanguage(locale), clock, ok)

\* The request payload: the window's role/content pairs, then the new
\* user message.
BuildMessages(window, user_message) ==
    Append([i \in 1..Len(window) |->
               [role |-> window[i].role, content |-> window[i].content]],
           [role |-> "user", content |-> user_message])

\* messages=messages (line 156): each attempt of the loop passes the list
\* that was built before the loop.
RetryMessagesReread(r) ==
    BuildMessages(CHOOSE w \in get_recent_messages(store, r.chat_id,
                                                    message_history_limit) :
                      TRUE,
                  r.text)
RetryMessages(r) == r.messages

\* The handler after `response = await response_task`: the synthesis task
\* is created and reply_text(response) is awaited.
AfterResponseWaitsForAudio(r, response) ==
    [r EXCEPT !.response = response, !.audio = "scheduled",
              !.pc = "await_audio"]
AfterResponse(r, response) ==
    [r EXCEPT !.response = response, !.audio = "scheduled",
              !.pc = "sending_text"]

\* The handler at `audio = await audio_task` once the task has finished.
AfterAudio(r, audio) ==
    IF audio = "ok" THEN [r EXCEPT !.pc = "sending_voice"]
    ELSE Except(r, "synth")

\* A handler that shrugs off a failed text send and goes on to the voice.
OnSendTextFailedGoesOn(r) ==
    IF r.audio = "scheduled" THEN [r EXCEPT !.pc = "await_audio"]
    ELSE AfterAudio(r, r.audio)

\* reply_text(response) raised (line 197): the except at 205 takes over;
\* lines 199-203 are skipped.
OnSendTextFailed(r) == Except(r, "send_text")

\* ---------------------------------------------------------- handler steps

Set(t, r) == turn' = [turn EXCEPT ![t] = r]

\* A text update arrives: handle_text_message runs to `await response_task`.
TextStart(t) ==
    /\ turn[t].pc = "idle"
    /\ \E chat_id \in TurnChats, text \in UserTexts, locale \in Locales,
          ok \in BOOLEAN :
          /\ store' = StoreAfterUser(chat_id, text, locale, ok)
          /\ nextId' = IF ok THEN nextId + 1 ELSE nextId
          /\ Set(t, TextBody(turn[t], chat_id, text, locale, ok))
    /\ UNCHANGED <<clock, recent, cache, asked, wa>>

\* The completion task starts: get_claude_response reads the history,
\* builds the payload and issues the first messages.create (lines 141-153).
\* The read may raise; the outer except re-raises it to the handler.
ClaudeBegin(t) ==
    /\ turn[t].pc = "task"
    /\ \/ Set(t, Except([turn[t] EXCEPT !.reads = @ + 1,
                                          !.readFailed = TRUE], "read"))
       \/ \E window \in get_recent_messages(store, turn[t].chat_id,
                                            message_history_limit) :
             LET messages == BuildMessages(window, turn[t].text)
             IN  Set(t, [turn[t] EXCEPT !.reads = @ + 1,
                                        !.window = window,
                                        !.messages = messages,
                                        !.attempt = 0,
                                        !.requests = Append(@, messages),
                                        !.pc = "calling"])
    /\ UNCHANGED <<store, nextId, clock, recent, cache, asked, wa>>

\* messages.create returns or raises (lines 152-164).
ClaudeReturn(t) ==
    /\ turn[t].pc = "calling"
    /\ \E outcome \in Outcomes :
          LET r == [turn[t] EXCEPT !.outcomes = Append(@, outcome)]
          IN  IF ~Caught(outcome) THEN Set(t, AfterResponse(r, Reply))
              ELSE IF IsLastAttempt(r.attempt)
                   THEN Set(t, OnExhausted(r, outcome))
                   ELSE Set(t, [r EXCEPT
                                   !.sleeps = Append(@, Backoff(r.attempt)),
                                   !.pc = "sleeping"])
    /\ UNCHANGED <<store, nextId, clock, recent, cache, asked, wa>>

\* asyncio.sleep is over: the for loop takes its next attempt with the same
\* messages, or, with the range used up, falls out and the function
\* returns None.
Wake(t) ==
    /\ turn[t].pc = "sleeping"
    /\ LET r == turn[t]
       IN  IF r.attempt + 1 < max_retries
           THEN Set(t, [r EXCEPT !.attempt = @ + 1,
                                 !.requests = Append(@, RetryMessages(r)),
                                 !.pc = "calling"])
           ELSE Set(t, AfterResponse([r EXCEPT !.attempt = @ + 1], NoneValue))
    /\ UNCHANGED <<store, nextId, clock, recent, cache, asked, wa>>

\* reply_text(response) returns or raises (line 197); on return the handler
\* awaits the synthesis task (line 199).
SendTextReturn(t) ==
    /\ turn[t].pc = "sending_text"
    /\ LET r == turn[t]
       IN  \/ LET r1 == [r EXCEPT !.out = Append(@, [via |-> "text",
                                                   body |-> r.response])]
              IN  IF r.audio = "scheduled"
                  THEN Set(t, [r1 EXCEPT !.pc = "await_audio"])
                  ELSE Set(t, AfterAudio(r1, r.audio))
           \/ Set(t, OnSendTextFailed(r))
    /\ UNCHANGED <<store, nextId, clock, recent, cache, asked, wa>>

\* The synthesis task (text_to_speech in a worker thread) finishes with the
\* audio or with an exception; a handler waiting on it resumes.
SynthFinish(t) ==
    /\ turn[t].audio = "scheduled"
    /\ \E audio \in {"ok", "failed"} :
          LET r == [turn[t] EXCEPT !.audio = audio]
          IN  IF r.pc = "await_audio" THEN Set(t, AfterAudio(r, audio))
              ELSE Set(t, r)
    /\ UNCHANGED <<store, nextId, clock, recent, cache, asked, wa>>

\* reply_voice returns or raises (line 203).
SendVoiceReturn(t) ==
    /\ turn[t].pc = "sending_voice"
    /\ LET r == turn[t]
       IN  \/ Set(t, [r EXCEPT !.out = Append(@, [via |-> "voice",
                                                 body |-> r.response]),
                               !.pc = "done"])
           \/ Set(t, Except(r, "send_voice"))
    /\ UNCHANGED <<store, nextId, clock, recent, cache, asked, wa>>

\* reply_text("Sorry, something went wrong.") returns or raises (line 206);
\* it is awaited inside the except block, so its exception leaves the
\* handler.
SendApologyReturn(t) ==
    /\ turn[t].pc = "sending_apology"
    /\ LET r == turn[t]
       IN  \/ Set(t, [r EXCEPT !.out = Append(@, [via |-> "text",
                                                 body |-> Apology]),
                               !.pc = "done"])
           \/ Set(t, Propagate(r, "send_apology"))
    /\ UNCHANGED <<store, nextId, clock, recent, cache, asked, wa>>

\* A voice update arrives: handle_voice_message awaits send_chat_action,
\* get_file and download_to_drive (lines 211-218).
VoiceStart(t) ==
    /\ turn[t].pc = "idle"
    /\ \E chat_id \in TurnChats, locale \in Locales :
          Set(t, [turn[t] EXCEPT !.kind = "voice", !.chat_id = chat_id,
                                 !.locale = locale,
                                 !.language = EffectiveLanguage(locale),
                                 !.pc = "fetching"])
    /\ UNCHANGED <<store, nextId, clock, recent, cache, asked, wa>>

\* The downloads return or raise; then speech_to_text is awaited.
FetchReturn(t) ==
    /\ turn[t].pc = "fetching"
    /\ \/ Set(t, [turn[t] EXCEPT !.pc = "transcribing"])
       \/ Set(t, VoiceExcept(turn[t], "fetch"))
    /\ UNCHANGED <<store, nextId, clock, recent, cache, asked, wa>>

\* speech_to_text returns or raises (lines 219-229).  With a transcript the
\* update is rebuilt with _replace, a method of the Telegram library that
\* succeeds or raises, and handle_text_message runs on it.
TranscribeReturn(t) ==
    /\ turn[t].pc = "transcribing"
    /\ LET r == turn[t]
           locale == r.locale
       IN  \/ /\ Set(t, VoiceExcept(r, "transcribe"))
              /\ UNCHANGED <<store, nextId>>
           \/ \E result \in {<<>>, <<"">>} \cup {<<x>> : x \in UserTexts} :
                 LET text == speech_to_text(result)
                 IN  IF NotText(text)
                     THEN /\ Set(t, [r EXCEPT !.transcript = text,
                                              !.pc = "sending_notunderstood"])
                          /\ UNCHANGED <<store, nextId>>
                     ELSE \/ /\ Set(t, VoiceExcept(
                                       [r EXCEPT !.transcript = text],
                                       "replace"))
                             /\ UNCHANGED <<store, nextId>>
                          \/ \E ok \in BOOLEAN :
                              /\ store' = StoreAfterUser(r.chat_id, text,
                                                         locale, ok)
                              /\ nextId' = IF ok THEN nextId + 1 ELSE nextId
                              /\ Set(t, TextBody(
                                        [r EXCEPT !.transcript = text],
                                        r.chat_id, text, locale, ok))
    /\ UNCHANGED <<clock, recent, cache, asked, wa>>

\* reply_text("Could not understand audio...") returns or raises (line 223);
\* it is inside the try, so its exception reaches the handler's except.
SendNotUnderstoodReturn(t) ==
    /\ turn[t].pc = "sending_notunderstood"
    /\ LET r == turn[t]
       IN  \/ Set(t, [r EXCEPT !.out = Append(@, [via |-> "text",
                                                 body |-> NotUnderstood]),
                               !.pc = "done"])
           \/ Set(t, VoiceExcept(r, "send_notunderstood"))
    /\ UNCHANGED <<store, nextId, clock, recent, cache, asked, wa>>

\* reply_text("Sorry, I couldn't process your voice message.") returns or
\* raises (line 233); raised inside the except block, it leaves the handler.
SendVoiceApologyReturn(t) ==
    /\ turn[t].pc = "sending_voice_apology"
    /\ LET r == turn[t]
       IN  \/ Set(t, [r EXCEPT !.out = Append(@, [via |-> "text",
                                                 body |-> VoiceApology]),
                               !.pc = "done"])
           \/ Set(t, [r EXCEPT !.escaped = TRUE, !.pc = "done"])
    /\ UNCHANGED <<store, nextId, clock, recent, cache, asked, wa>>

\* Another update's handler, overlapping the one that is followed, reaches
\* its own add_message(chat_id, "user", text, language) (lines 184-187) and
\* the insert succeeds.  The store is all that two turns share, and this
\* write is all a turn of this bot ever does to it.
OtherTurnWrites ==
    /\ \E t \in Turns : Len(store) - Len(turn[t].persisted) < MaxOthers
    /\ \E chat_id \in Chats, text \in OtherTexts, locale \in Locales :
          store' = StoreAfterUser(chat_id, text, locale, TRUE)
    /\ nextId' = nextId + 1
    /\ UNCHANGED <<clock, recent, turn, cache, asked, wa>>

\* The clock moves on after a write.  Only the order and the equality of
\* the stored timestamps matter to the handlers, so a reading no write has
\* used is not stepped over.
TurnTick ==
    /\ clock < MaxClock
    /\ \E i \in 1..Len(store) : store[i].timestamp = clock
    /\ clock' = clock + 1
    /\ UNCHANGED <<store, nextId, recent, turn, cache, asked, wa>>

\* ------------------------------------------------- WhatsApp bot (wa-app.py)

WaApology ==
    "I apologize, but I'm having trouble processing your request right now."
WaError == "Sorry, I encountered an error processing your message."

\* One WhatsAppBot.handle_text_message invocation: its arguments and locals,
\* what it stored and sent, and where it stands.
IdleWa ==
    [pc |-> "idle", chat_id |-> "c1", text |-> NoneValue, messages |-> <<>>,
     completed |-> "none", response |-> NoneValue, persisted |-> <<>>,
     audio |-> "none", error |-> "none", out |-> <<>>, escaped |-> FALSE]

\* The except of handle_text_message (lines 182-187): the error message is
\* sent next.
WaExcept(w, cause) == [w EXCEPT !.error = cause, !.pc = "sending_error"]

\* get_claude_response's except (lines 133-135) returns the apology string
\* in place of a reply; nothing is raised.
WaResponse(outcome) == IF outcome = "ok" THEN Reply ELSE WaApology

\* After text_to_speech returned (line 168): the text send is next.
WaAfterSynth(w, audio) ==
    IF audio = "raised" THEN WaExcept(w, "synth")
    ELSE [w EXCEPT !.audio = audio, !.pc = "sending_text"]

\* A webhook text message: handle_text_message calls get_claude_response,
\* which reads the history outside its try (line 120), builds the payload
\* and awaits messages.create (lines 121-131).
WaTextStart ==
    /\ wa.pc \in {"idle", "done"}
    /\ nextId + 1 <= MaxStore
    /\ \E chat_id \in Chats, text \in UserTexts :
          LET w == [IdleWa EXCEPT !.chat_id = chat_id, !.text = text]
          IN  \/ wa' = WaExcept(w, "read")
              \/ \E window \in get_recent_messages(store, chat_id,
                                                   message_history_limit) :
                    wa' = [w EXCEPT !.messages = BuildMessages(window, text),
                                    !.pc = "calling"]
    /\ UNCHANGED <<store, nextId, clock, recent, turn, cache, asked>>

\* messages.create returns or raises; either way get_claude_response
\* returns a string (lines 124-135).
WaClaudeReturn ==
    /\ wa.pc = "calling"
    /\ \E outcome \in Outcomes :
          wa' = [wa EXCEPT !.completed = outcome,
                           !.response = WaResponse(outcome),
                           !.pc = "persist_user"]
    /\ UNCHANGED <<store, nextId, clock, recent, turn, cache, asked>>

\* add_message(chat_id, "user", text) (line 164); a failed insert is logged.
WaPersistUser ==
    /\ wa.pc = "persist_user"
    /\ \E ok \in BOOLEAN :
          /\ store' = add_message(store, nextId, wa.chat_id, "user", wa.text,
                                  "en", clock, ok)
          /\ nextId' = IF ok THEN nextId + 1 ELSE nextId
          /\ wa' = [wa EXCEPT
                       !.persisted = IF ok THEN Append(@, "user") ELSE @,
                       !.pc = "persist_assistant"]
    /\ UNCHANGED <<clock, recent, turn, cache, asked>>

\* add_message(chat_id, "assistant", response) (line 165).
WaPersistAssistant ==
    /\ wa.pc = "persist_assistant"
    /\ \E ok \in BOOLEAN :
          /\ store' = add_message(store, nextId, wa.chat_id, "assistant",
                                  wa.response, "en", clock, ok)
          /\ nextId' = IF ok THEN nextId + 1 ELSE nextId
          /\ wa' = [wa EXCEPT
                       !.persisted = IF ok THEN Append(@, "assistant") ELSE @,
                       !.pc = "synthesizing"]
    /\ UNCHANGED <<clock, recent, turn, cache, asked>>

\* text_to_speech(response) runs before any send (line 168): it returns the
\* audio, returns nothing usable, or raises.
WaSynth ==
    /\ wa.pc = "synthesizing"
    /\ \E audio \in {"ok", "empty", "raised"} : wa' = WaAfterSynth(wa, audio)
    /\ UNCHANGED <<store, nextId, clock, recent, turn, cache, asked>>

\* messenger.send_message(response, chat_id) (line 171), then `if audio:`.
WaSendText ==
    /\ wa.pc = "sending_text"
    /\ \/ wa' = [wa EXCEPT !.out = Append(@, [via |-> "text",
                                              body |-> wa.response]),
                           !.pc = IF wa.audio = "ok" THEN "sending_audio"
                                  ELSE "done"]
       \/ wa' = WaExcept(wa, "send_text")
    /\ UNCHANGED <<store, nextId, clock, recent, turn, cache, asked>>

\* messenger.send_audio(...) (lines 173-180).
WaSendAudio ==
    /\ wa.pc = "sending_audio"
    /\ \/ wa' = [wa EXCEPT !.out = Append(@, [via |-> "voice",
                                              body |-> wa.response]),
                           !.pc = "done"]
       \/ wa' = WaExcept(wa, "send_audio")
    /\ UNCHANGED <<store, nextId, clock, recent, turn, cache, asked>>

\* messenger.send_message("Sorry, I encountered an error ...") inside the
\* except (lines 184-187); if it raises, the exception leaves the handler.
WaSendError ==
    /\ wa.pc = "sending_error"
    /\ \/ wa' = [wa EXCEPT !.out = Append(@, [via |-> "text",
                                              body |-> WaError]),
                           !.pc = "done"]
       \/ wa' = [wa EXCEPT !.escaped = TRUE, !.pc = "done"]
    /\ UNCHANGED <<store, nextId, clock, recent, turn, cache, asked>>

\* --------------------------------------------------------- specifications

Init ==
    /\ store = <<>>
    /\ nextId = 1
    /\ clock = 0
    /\ recent = NoCall
    /\ turn = [t \in Turns |-> IdleTurn]
    /\ cache = <<>>
    /\ asked = [c \in Chats |-> "never"]
    /\ wa = IdleWa

\* The handlers, as the Telegram application runs them.
Next ==
    \/ \E t \in Turns : TextStart(t)
    \/ \E t \in Turns : ClaudeBegin(t)
    \/ \E t \in Turns : ClaudeReturn(t)
    \/ \E t \in Turns : Wake(t)
    \/ \E t \in Turns : SendTextReturn(t)
    \/ \E t \in Turns : SynthFinish(t)
    \/ \E t \in Turns : SendVoiceReturn(t)
    \/ \E t \in Turns : SendApologyReturn(t)
    \/ \E t \in Turns : VoiceStart(t)
    \/ \E t \in Turns : FetchReturn(t)
    \/ \E t \in Turns : TranscribeReturn(t)
    \/ \E t \in Turns : SendNotUnderstoodReturn(t)
    \/ \E t \in Turns : SendVoiceApologyReturn(t)
    \/ OtherTurnWrites
    \/ TurnTick

Spec == Init /\ [][Next]_vars

\* What the event loop and the collaborators owe a running handler: every
\* await it is parked on returns or raises, and the worker thread finishes
\* the synthesis.  Updates, other turns and the clock owe nothing.
HandlerStep(t) ==
    \/ ClaudeBegin(t) \/ ClaudeReturn(t) \/ Wake(t)
    \/ SendTextReturn(t) \/ SendVoiceReturn(t) \/ SendApologyReturn(t)
    \/ FetchReturn(t) \/ TranscribeReturn(t)
    \/ SendNotUnderstoodReturn(t) \/ SendVoiceApologyReturn(t)

SpecFair ==
    /\ Init
    /\ [][Next]_vars
    /\ \A t \in Turns : WF_vars(HandlerStep(t)) /\ WF_vars(SynthFinish(t))

\* ChatHistory alone, driven by arbitrary callers.
NextStore == AddMessage \/ GetRecentMessages \/ Tick \/ Purge

SpecStore == Init /\ [][NextStore]_vars

\* The WhatsApp bot's text handler.  Everything after its one await runs
\* without suspension, so nothing but the clock moves between its steps.
NextWA ==
    \/ WaTextStart \/ WaClaudeReturn \/ WaPersistUser \/ WaPersistAssistant
    \/ WaSynth \/ WaSendText \/ WaSendAudio \/ WaSendError
    \/ TurnTick

SpecWA == Init /\ [][NextWA]_vars

\* The language lookup, driven by callers that keep asking: every chat's
\* get_chat_language is called again and again.
NextLang == AddMessageIn \/ GetChatLanguage \/ Tick \/ Purge

SpecLang ==
    /\ Init
    /\ [][NextLang]_vars
    /\ \A c \in Chats : WF_vars(GetChatLanguageOf(c))

\* ----------------------------------------------------------- ChatHistory
\* The store-level properties read `recent`, which holds a result only while
\* the collection is as the call saw it.

Docs == {store[i] : i \in 1..Len(store)}
DocOf(id) == CHOOSE d \in Docs : d.id = id
ResultIds == {recent.result[i].id : i \in 1..Len(recent.result)}

\* C1: get_recent_messages(c, N) with N >= 1 returns at most N Turns (N of
\* them when c has that many, all of c's otherwise), every one a Turn of
\* chat c, none twice, in non-decreasing timestamp order, and no Turn of c
\* that was left out is newer than one that was returned.
C1_RecentWindow ==
    recent.called =>
        LET res == recent.result
            D == Matching(store, recent.chat_id)
        IN  /\ Len(res) <= recent.limit
            /\ Len(res) = Min(recent.limit, Cardinality(D))
            /\ \A i \in 1..Len(res) : \E d \in D : Project(d) = res[i]
            /\ \A i, j \in 1..Len(res) : i < j =>
                  /\ res[i].id # res[j].id
                  /\ DocOf(res[i].id).timestamp <= DocOf(res[j].id).timestamp
            /\ \A d \in D : d.id \notin ResultIds =>
                  \A i \in 1..Len(res) :
                      d.timestamp <= DocOf(res[i].id).timestamp

\* A read that had to cut the chat's history to its newer Turn and to leave
\* another chat's Turn out.
C1_Witness ==
    /\ recent.called
    /\ recent.limit = 1
    /\ Len(recent.result) = 1
    /\ \E d \in Docs : d.chat_id # recent.chat_id
    /\ \E d \in Matching(store, recent.chat_id) :
          d.timestamp < DocOf(recent.result[1].id).timestamp

\* C8: a Turn whose timestamp is older than now minus the TTL is never in
\* what get_recent_messages returns, purged or not.
C8_NoExpiredReturned ==
    recent.called =>
        \A i \in 1..Len(recent.result) :
            ~Expired(DocOf(recent.result[i].id), recent.now)

\* C9: after add_message(c, "user", m) directly followed by
\* add_message(c, "assistant", r), both inserted, get_recent_messages(c, 2)
\* returns exactly [user:m, assistant:r].
C9_UserThenAssistant ==
    (/\ recent.called
     /\ recent.limit = 2
     /\ Len(store) >= 2
     /\ store[Len(store) - 1].chat_id = recent.chat_id
     /\ store[Len(store)].chat_id = recent.chat_id
     /\ store[Len(store) - 1].role = "user"
     /\ store[Len(store)].role = "assistant")
    => recent.result = <<Project(store[Len(store) - 1]),
                         Project(store[Len(store)])>>

\* ------------------------------------------------- get_claude_response

Failed(outcomes) == \A i \in 1..Len(outcomes) : outcomes[i] # "ok"
Succeeded(r) ==
    /\ Len(r.outcomes) >= 1
    /\ r.outcomes[Len(r.outcomes)] = "ok"
Exhausted(r) == Len(r.outcomes) = max_retries /\ Failed(r.outcomes)

\* C2: when the first successful attempt is attempt k (k <= max_retries),
\* get_claude_response returns that attempt's text after exactly k
\* attempts, and it waited retry_delay * i before attempt i + 1: strictly
\* longer each time.  In particular: failures on attempts 1 and 2, success
\* on attempt 3, 3 attempts, waits of 1 then 2.
C2_RetryUntilSuccess ==
    \A t \in Turns :
        LET r == turn[t]
            k == Len(r.outcomes)
        IN  Succeeded(r) =>
                /\ k <= max_retries
                /\ Failed(SubSeq(r.outcomes, 1, k - 1))
                /\ Len(r.requests) = k
                /\ r.response = Reply
                /\ r.sleeps = [i \in 1..(k - 1) |-> retry_delay * i]
                /\ \A i, j \in 1..Len(r.sleeps) :
                      i < j => r.sleeps[i] < r.sleeps[j]

\* Two failures, then the third attempt succeeds.
C2_Witness ==
    \E t \in Turns :
        /\ turn[t].outcomes = <<"transient", "transient", "ok">>
        /\ turn[t].sleeps = <<1, 2>>
        /\ turn[t].response = Reply

\* C3: no turn ever makes more than max_retries attempts; when all
\* max_retries attempts fail, the last attempt's error is what the caller
\* catches, and there were max_retries - 1 waits: none after the final
\* failure.
C3_GiveUpAfterMaxRetries ==
    \A t \in Turns :
        LET r == turn[t]
        IN  /\ Len(r.requests) <= max_retries
            /\ Len(r.sleeps) < max_retries
            /\ Exhausted(r) =>
                  /\ r.error = r.outcomes[max_retries]
                  /\ Len(r.requests) = max_retries
                  /\ Len(r.sleeps) = max_retries - 1
                  /\ r.pc # "sleeping"

\* Three failed attempts, the last of another class than the first two.
C3_Witness ==
    \E t \in Turns :
        /\ turn[t].outcomes = <<"transient", "transient", "permanent">>
        /\ turn[t].error = "permanent"

\* C10: a permanent (malformed-input) error on the first attempt is
\* surfaced at once: no wait, no second attempt.
C10_PermanentNotRetried ==
    \A t \in Turns :
        LET r == turn[t]
        IN  (Len(r.outcomes) >= 1 /\ r.outcomes[1] = "permanent") =>
                /\ r.sleeps = <<>>
                /\ Len(r.requests) = 1

\* ------------------------------------------------------------ the handlers

TextOut(body) == [via |-> "text", body |-> body]
VoiceOut(body) == [via |-> "voice", body |-> body]
Delivered(r, msg) == \E i \in 1..Len(r.out) : r.out[i] = msg
VoiceDelivered(r) == \E i \in 1..Len(r.out) : r.out[i].via = "voice"
Ended(r) == r.pc = "done"

\* The send of an apology raised: Telegram did not take the message.
ApologySendFailed(r) == r.escaped \/ r.voiceError = "send_apology"

\* An assistant Turn of the chat is in the collection.
AssistantStored(chat_id) ==
    \E d \in Docs : d.chat_id = chat_id /\ d.role = "assistant"

\* C4: when all 3 completion attempts of a turn fail, the handler goes
\* straight to its apology: the collection holds no assistant Turn of the
\* chat, no synthesis task is ever created, neither the model's text nor a
\* voice reply is delivered, and the turn ends with the generic apology as
\* the one message the user got from handle_text_message (Telegram taking
\* the send).
C4_ExhaustedTurnApologises ==
    \A t \in Turns :
        LET r == turn[t]
        IN  Exhausted(r) =>
                /\ r.pc \in {"sending_apology", "sending_voice_apology",
                             "done"}
                /\ ~AssistantStored(r.chat_id)
                /\ "assistant" \notin {r.persisted[i] :
                                          i \in 1..Len(r.persisted)}
                /\ r.audio = "none"
                /\ ~VoiceDelivered(r)
                /\ ~Delivered(r, TextOut(Reply))
                /\ ~Delivered(r, TextOut(r.response))
                /\ (r.pc # "sending_apology" /\ ~ApologySendFailed(r))
                       => r.out = <<TextOut(Apology)>>

\* A text turn that ended after three failed attempts.
C4_Witness ==
    \E t \in Turns :
        /\ Exhausted(turn[t])
        /\ Ended(turn[t])
        /\ turn[t].kind = "text"
        /\ turn[t].out = <<TextOut(Apology)>>

\* C5: when speech_to_text yields None or an empty text, handle_voice_message
\* sends the "could not understand audio" message and returns: no
\* completion request is ever issued, no Turn is written (nor is a write
\* tried), no synthesis task is created and no voice reply is sent; the
\* message is what the user got when the turn ends (Telegram taking the
\* send).
C5_NoTranscriptNoCompletion ==
    \A t \in Turns :
        LET r == turn[t]
        IN  (r.kind = "voice" /\ r.transcript \in {NoneValue, ""}) =>
                /\ r.pc \in {"sending_notunderstood", "sending_voice_apology",
                             "done"}
                /\ r.requests = <<>>
                /\ r.outcomes = <<>>
                /\ r.persisted = <<>>
                /\ ~r.writeFailed
                /\ r.audio = "none"
                /\ ~VoiceDelivered(r)
                /\ r.pc = "sending_voice_apology"
                       => r.voiceError = "send_notunderstood"
                /\ (Ended(r) /\ r.voiceError = "none")
                       => r.out = <<TextOut(NotUnderstood)>>

\* A voice turn whose audio gave an empty text, ended.
C5_Witness ==
    \E t \in Turns :
        /\ turn[t].kind = "voice"
        /\ turn[t].transcript = ""
        /\ Ended(turn[t])
        /\ turn[t].out = <<TextOut(NotUnderstood)>>

\* C6: when the turn's store write fails, the exception stays inside
\* add_message: it neither reaches the handler's except nor leaves the
\* handler, and once the completion call has succeeded the model's text is
\* sent: the send is in flight, or it raised, or the text is the first
\* message the user got.
C6_StoreFailureContained ==
    \A t \in Turns :
        LET r == turn[t]
        IN  r.writeFailed =>
                /\ r.error # "store"
                /\ r.voiceError # "store"
                /\ (r.escaped => r.error # "none")
                /\ Succeeded(r) =>
                      \/ r.pc = "sending_text"
                      \/ r.error = "send_text"
                      \/ (Len(r.out) >= 1 /\ r.out[1] = TextOut(Reply))

\* A turn whose write failed and whose reply the user got.
C6_Witness ==
    \E t \in Turns :
        /\ turn[t].writeFailed
        /\ turn[t].persisted = <<>>
        /\ Succeeded(turn[t])
        /\ Ended(turn[t])
        /\ Delivered(turn[t], TextOut(Reply))

\* C7: a turn that ends with the completion call and every store write
\* having succeeded has written exactly two Turns to the chat: the user's
\* message, then the assistant's reply.
C7_TwoTurnsPerExchange ==
    \A t \in Turns :
        LET r == turn[t]
        IN  (Ended(r) /\ Succeeded(r) /\ ~r.writeFailed) =>
                /\ r.persisted = <<"user", "assistant">>
                /\ \E i, j \in 1..Len(store) :
                      /\ i < j
                      /\ store[i].chat_id = r.chat_id
                      /\ store[i].role = "user"
                      /\ store[i].content = r.text
                      /\ store[j].chat_id = r.chat_id
                      /\ store[j].role = "assistant"
                      /\ store[j].content = r.response

\* ------------------------------------------------ containment of failures

\* C11: once the model's text reply has been delivered, a failure of the
\* synthesis or of the voice send stays silent: no apology is sent or
\* delivered in that turn, so the user never gets both the reply and an
\* apology.
C11_VoiceFailureSilent ==
    \A t \in Turns :
        LET r == turn[t]
        IN  Delivered(r, TextOut(Reply)) =>
                /\ r.pc # "sending_apology"
                /\ ~Delivered(r, TextOut(Apology))
                /\ ~Delivered(r, TextOut(VoiceApology))

\* C12: whatever fails (store, completion service, synthesis, any send, the
\* apology's own send included), no exception leaves handle_text_message or
\* handle_voice_message as the application calls them, and the user gets at
\* most one apology per turn.
C12_NoEscapeOneApology ==
    \A t \in Turns :
        LET r == turn[t]
        IN  /\ ~r.escaped
            /\ Cardinality({i \in 1..Len(r.out) :
                               r.out[i] \in {TextOut(Apology),
                                             TextOut(VoiceApology)}}) <= 1

\* C13: when the turn's history read raises, the turn goes on with an empty
\* history: the read's exception does not reach the handler's except, and
\* the completion service is called with the user's message.
C13_ReadFailureProceeds ==
    \A t \in Turns :
        LET r == turn[t]
        IN  r.readFailed =>
                /\ r.error # "read"
                /\ Len(r.requests) >= 1
                /\ r.requests[1][Len(r.requests[1])]
                       = [role |-> "user", content |-> r.text]

\* ------------------------------------------------------ the request payload

\* How often the turn's own user message is in its request: once as the
\* final entry, and once more for every Turn of the window that this turn
\* wrote itself.
OwnInWindow(r) ==
    Cardinality({i \in 1..Len(r.window) : r.window[i].id \in r.ownIds})

\* C16: every completion request of a turn is the chat's history as it was
\* before the turn wrote its user Turn, followed by the new user message:
\* the window holds no Turn written by this turn, so the new message is in
\* the request exactly once.
C16_UserMessageOnce ==
    \A t \in Turns :
        LET r == turn[t]
        IN  \A k \in 1..Len(r.requests) :
                /\ r.requests[k] = BuildMessages(r.window, r.text)
                /\ OwnInWindow(r) + 1 = 1

\* C17: within one get_claude_response call the history is read once, and
\* every attempt sends the payload of the first attempt, whatever other
\* turns have written to the chat in between.
C17_SamePayloadOnRetry ==
    \A t \in Turns :
        LET r == turn[t]
        IN  /\ r.reads <= 1
            /\ r.requests # <<>> => r.reads = 1
            /\ \A k \in 1..Len(r.requests) : r.requests[k] = r.requests[1]

\* A retry issued after another turn wrote a Turn to the same chat that
\* the first attempt's read had not seen.
C17_Witness ==
    \E t \in Turns :
        LET r == turn[t]
        IN  /\ Len(r.requests) >= 2
            /\ \E d \in Docs :
                  /\ d.chat_id = r.chat_id
                  /\ d.id \notin r.ownIds
                  /\ \A i \in 1..Len(r.window) : r.window[i].id # d.id

\* C18: once the completion call has succeeded the synthesis task exists
\* and the text reply is sent without waiting for it: the send is in
\* flight, or it raised, or the reply is the first message the user got,
\* and the handler waits for the audio only with the text delivered.  A
\* voice reply in what the user got has the text reply before it.
C18_TextBeforeVoice ==
    \A t \in Turns :
        LET r == turn[t]
        IN  /\ Succeeded(r) =>
                  /\ r.audio # "none"
                  /\ \/ r.pc = "sending_text"
                     \/ r.error = "send_text"
                     \/ (Len(r.out) >= 1 /\ r.out[1] = TextOut(Reply))
            /\ r.pc \in {"await_audio", "sending_voice"}
                  => r.out = <<TextOut(r.response)>>
            /\ \A j \in 1..Len(r.out) :
                  r.out[j].via = "voice" =>
                      \E i \in 1..(j - 1) : r.out[i] = TextOut(r.response)

\* Both replies reached the user, the text first.
C18_Witness ==
    \E t \in Turns :
        /\ turn[t].out = <<TextOut(Reply), VoiceOut(Reply)>>
        /\ turn[t].audio = "ok"


\* The handler has fixed the language of its turn.
LanguageFixed(r) == r.pc \notin {"idle", "fetching", "transcribing"}

\* C14: a turn whose user sent no locale runs in the language that
\* get_chat_language gives for its chat (so 'en' only for a chat without
\* history), and a turn whose user sent a locale runs in that locale; the
\* user Turn it stores carries that language.
C14_LanguageFromChat ==
    \A t \in Turns :
        LET r == turn[t]
            expected == IF r.locale # NoLang THEN {r.locale} ELSE r.chatLangs
        IN  (LanguageFixed(r) /\ r.kind = "text") =>
                /\ r.language \in expected
                /\ \A id \in r.ownIds :
                       \A d \in Docs : d.id = id => d.language \in expected

\* The newest Turns of a chat and their languages.
NewestLanguages(chat_id) ==
    {d.language : d \in {e \in Matching(store, chat_id) :
        \A f \in Matching(store, chat_id) : f.timestamp <= e.timestamp}}

\* C15: once the newest Turns of a chat are in language L, callers that
\* keep asking get_chat_language are eventually told L (unless the chat
\* moves on to yet another language first); the cache never holds more
\* than cache_maxsize entries, at most one per chat, each a language some
\* caller was told for that chat.
C15_LanguageEventuallyFresh ==
    /\ \A c \in Chats : \A L \in {"en", "pt"} :
           [](NewestLanguages(c) = {L}
                => <>(asked[c] = L \/ NewestLanguages(c) # {L}))
    /\ [](Len(cache) <= cache_maxsize)
    /\ [](\A i, j \in 1..Len(cache) :
              cache[i].key = cache[j].key => i = j)


\* A finished turn: the text reply reached the user, or the turn failed and
\* a message to the user was at least attempted (sent, or raised in the
\* sending).
Terminal(r) ==
    /\ r.pc = "done"
    /\ \/ Delivered(r, TextOut(Reply))
       \/ r.out # <<>>
       \/ r.escaped

\* C19: under fair scheduling, with collaborators that return or fail,
\* every handler invocation that has started eventually reaches a terminal
\* state, and it never makes more than max_retries completion attempts.
C19_HandlerTerminates ==
    /\ \A t \in Turns : (turn[t].pc # "idle") ~> Terminal(turn[t])
    /\ [](\A t \in Turns :
              /\ Len(turn[t].outcomes) <= max_retries
              /\ Len(turn[t].requests) <= max_retries
              /\ turn[t].pc = "done" => Terminal(turn[t]))

\* A turn that ended after using up every attempt.
C19_Witness ==
    \E t \in Turns : Terminal(turn[t]) /\ Exhausted(turn[t])


\* C20: in the WhatsApp bot, once get_claude_response has returned a reply
\* and the handler has ended, the text reply was sent to the chat, whatever
\* became of the synthesis and of the voice send (the text send itself
\* taking the message is the only condition).
C20_TextDespiteVoiceFailure ==
    (/\ wa.pc = "done"
     /\ wa.response # NoneValue
     /\ wa.error # "send_text")
        => Delivered(wa, TextOut(wa.response))


\* The completion call of the WhatsApp turn raised.
WaCompletionFailed == wa.completed \in {"transient", "permanent"}

\* C21: in the WhatsApp bot, a turn whose completion call failed stores no
\* assistant Turn, neither synthesizes nor sends a voice reply, and sends
\* the user nothing but apology text.
C21_FailedCompletionOnlyApologises ==
    WaCompletionFailed =>
        /\ \A i \in 1..Len(wa.persisted) : wa.persisted[i] # "assistant"
        /\ wa.audio = "none"
        /\ ~VoiceDelivered(wa)
        /\ \A i \in 1..Len(wa.out) :
               /\ wa.out[i].via = "text"
               /\ wa.out[i].body \in {WaApology, WaError}


\* C22: a turn delivers a voice reply only when its completion call
\* succeeded and its text reply was delivered before; in no reachable state
\* has the user got the voice reply without the text reply.
C22_VoiceOnlyAfterText ==
    \A t \in Turns :
        LET r == turn[t]
        IN  \A i \in 1..Len(r.out) :
                r.out[i].via = "voice" =>
                    /\ Succeeded(r)
                    /\ r.out[i] = VoiceOut(Reply)
                    /\ \E j \in 1..(i - 1) : r.out[j] = TextOut(Reply)

\* A turn ended without any error, the voice reply delivered.
C22_Witness ==
    \E t \in Turns :
        /\ Ended(turn[t])
        /\ VoiceDelivered(turn[t])
        /\ turn[t].error = "none"

=============================================================================
